---- MODULE Spec2Model ----
(***************************************************************************)
(* Model of inquire's core research orchestration (src/inquire/core.py).   *)
(*                                                                         *)
(* Researcher.__init__ is synchronous and is one action.  Researcher       *)
(* .research is a coroutine: each action is the part of its body that runs *)
(* between two suspensions (the awaits of lines 56, 62 and 66), so that    *)
(* other coroutines of the same event loop run only where the code can     *)
(* yield to them.  The numbered steps of the body are operators on the     *)
(* call's frame, and each records itself in the frame's trace.             *)
(*                                                                         *)
(* BamlManager, ResearchConfig and the exception classes are imported by   *)
(* core.py from modules that are not part of the source at hand; they are  *)
(* modelled from the specification's description of them.                  *)
(*                                                                         *)
(* The environment (which directories exist, which of them hold loadable   *)
(* BAML definitions) is chosen in Init and does not change.                *)
(***************************************************************************)
EXTENDS Integers, Sequences, FiniteSets, TLC

\* ---------------------------------------------------------------- bounds
MaxResearchers == 1
MaxCalls == 2

Researchers == 1..MaxResearchers
Calls == 1..MaxCalls

\* ------------------------------------------------------- values and types
NoDir == "None"
DefaultDir == "cwd/baml_schemas"
Dirs == {DefaultDir, "other/baml"}

Schemas == {"A", "B"}

\* The class hierarchy the isinstance check walks: SubA derives from A.
Bases(t) ==
  CASE t = "SubA" -> {"SubA", "A"}
    [] OTHER -> {t}

NoValue == [id |-> 0, type |-> "NoneType"]
Values == {[id |-> 1, type |-> "SubA"], [id |-> 2, type |-> "B"]}

\* Exception classes derive from Exception; CancelledError derives from
\* BaseException only.
ExceptionClasses == {"RuntimeError"}
NoExc == [id |-> 0, class |-> "none", msg |-> ""]
Raised == {[id |-> 4, class |-> "RuntimeError", msg |-> "boom"],
           [id |-> 5, class |-> "CancelledError", msg |-> ""]}

\* An extractor (baml_function): whether the manager recognizes it, and what
\* awaiting it does.
Extractors ==
  {[recognized |-> TRUE, kind |-> "returns", val |-> v, exc |-> NoExc] : v \in Values}
  \cup {[recognized |-> TRUE, kind |-> "raises", val |-> NoValue, exc |-> e] : e \in Raised}
  \cup {[recognized |-> FALSE, kind |-> "returns", val |-> CHOOSE v \in Values : v.id = 1,
         exc |-> NoExc]}

Instructions == {"find X"}

\* config: ConfigDict | None.  A dict is a set of <<key, value>> items.
NoneConfig == [isNone |-> TRUE, items |-> {}]
ConfigArgs == {NoneConfig, [isNone |-> FALSE, items |-> {<<"baml_dir", "other/baml">>}]}

NoError == [kind |-> "none", msg |-> <<>>, cause |-> 0, id |-> 0]

VARIABLES fs, loadable, researchers, calls

vars == <<fs, loadable, researchers, calls>>

\* ------------------------------------------------- ResearchConfig (config)
Defaults == {<<"baml_dir", DefaultDir>>}

Keys(items) == {it[1] : it \in items}

Lookup(items, k) == (CHOOSE it \in items : it[1] = k)[2]

\* ResearchConfig.from_dict: overrides layered onto the defaults.
FromDict(items) ==
  [baml_dir |-> IF "baml_dir" \in Keys(items) THEN Lookup(items, "baml_dir")
                ELSE Lookup(Defaults, "baml_dir")]

\* ResearchConfig.validate_or_raise: TRUE when it returns, FALSE when it
\* raises ConfigurationError.
ValidateOk(config) == config.baml_dir \in fs

\* ---------------------------------------------------------- BamlManager
\* setups counts the runs of the manager's setup work (a spy on init).
BamlManager(dir) == [dir |-> dir, initialized |-> FALSE, setups |-> 0]

NoManager == [dir |-> NoDir, initialized |-> FALSE, setups |-> 0]

\* BamlManager.init, up to its suspension: nothing to do when ready.
InitNeedsSetup(m) == ~m.initialized

InitBegin(m) == [m EXCEPT !.setups = @ + 1]

\* BamlManager.init, after its suspension: the setup either completes or fails.
SetupOk(m) == m.dir \in loadable

InitDone(m) == [m EXCEPT !.initialized = TRUE]

\* BamlManager.verify_function: TRUE when it returns, FALSE when it raises
\* InvalidFunctionError.
VerifyFunction(fn) == fn.recognized

\* ------------------------------------------------------------- Researcher
NoResearcher ==
  [status |-> "none", argDir |-> NoDir, argCfg |-> NoneConfig,
   config |-> [baml_dir |-> NoDir], validated |-> NoDir, manager |-> NoManager]

\* __init__ with validate_or_raise moved above the baml_dir override.
ResearcherInitValidateFirst(baml_dir, config) ==
  LET cfg0 == FromDict(IF config.isNone THEN {} ELSE config.items)
      cfg1 == IF baml_dir # NoDir THEN [cfg0 EXCEPT !.baml_dir = baml_dir] ELSE cfg0
      mgr == BamlManager(cfg1.baml_dir)
  IN [status |-> IF ValidateOk(cfg0) THEN "live" ELSE "failed",
      argDir |-> baml_dir, argCfg |-> config,
      config |-> cfg1, validated |-> cfg0.baml_dir, manager |-> mgr]

\* __init__ with the BamlManager built above the baml_dir override.
ResearcherInitManagerFirst(baml_dir, config) ==
  LET cfg0 == FromDict(IF config.isNone THEN {} ELSE config.items)
      cfg1 == IF baml_dir # NoDir THEN [cfg0 EXCEPT !.baml_dir = baml_dir] ELSE cfg0
      mgr == BamlManager(cfg0.baml_dir)
  IN [status |-> IF ValidateOk(cfg1) THEN "live" ELSE "failed",
      argDir |-> baml_dir, argCfg |-> config,
      config |-> cfg1, validated |-> cfg1.baml_dir, manager |-> mgr]

\* Researcher.__init__(baml_dir, config).  status is "live" when __init__
\* returns and "failed" when validate_or_raise raises ConfigurationError (the
\* caller then holds no Researcher).  validated is the location that
\* validate_or_raise looked at.
ResearcherInit(baml_dir, config) ==
  LET cfg0 == FromDict(IF config.isNone THEN {} ELSE config.items)
      cfg1 == IF baml_dir # NoDir THEN [cfg0 EXCEPT !.baml_dir = baml_dir] ELSE cfg0
      mgr == BamlManager(cfg1.baml_dir)
  IN [status |-> IF ValidateOk(cfg1) THEN "live" ELSE "failed",
      argDir |-> baml_dir, argCfg |-> config,
      config |-> cfg1, validated |-> cfg1.baml_dir, manager |-> mgr]

\* ------------------------------------------------------------------ errors
ConfigurationError ==
  [kind |-> "ConfigurationError", msg |-> <<"baml_dir">>, cause |-> 0, id |-> 0]

BamlInitError ==
  [kind |-> "BamlInitError", msg |-> <<"init failed">>, cause |-> 0, id |-> 0]

InvalidFunctionError ==
  [kind |-> "InvalidFunctionError", msg |-> <<"not a BAML function">>, cause |-> 0, id |-> 0]

\* raise ExtractionError(f"BAML extraction failed: {e}") from e
ExtractionFailed(e) ==
  [kind |-> "ExtractionError", msg |-> <<"BAML extraction failed: ", e.msg>>,
   cause |-> e.id, id |-> 0]

\* raise ExtractionError(f"BAML function returned {type(result)}, expected {schema}")
ExtractionMismatch(result, schema) ==
  [kind |-> "ExtractionError",
   msg |-> <<"BAML function returned ", result.type, ", expected ", schema>>,
   cause |-> 0, id |-> 0]

\* An exception the except clause does not catch leaves research as it is.
Propagated(e) == [kind |-> e.class, msg |-> <<e.msg>>, cause |-> 0, id |-> e.id]

\* isinstance(result, schema)
IsInstance(result, schema) == schema \in Bases(result.type)

\* except Exception: the classes the clause catches.
IsException(e) == e.class \in ExceptionClasses

\* Researcher._run_research(instructions)
RunResearch(instructions) == <<"[Research output for: ", instructions, "]">>

\* ------------------------------------------------------------------ calls
\* The frame of one research call.  via is "method" for researcher.research
\* on researchers[r], and "wrapper" for the module-level research, whose
\* Researcher is the local variable own of the wrapper's frame.
IdleCall ==
  [pc |-> "idle", via |-> "none", r |-> 0, own |-> NoResearcher,
   instr |-> "", schema |-> "", fn |-> CHOOSE f \in Extractors : ~f.recognized,
   text |-> <<>>, result |-> NoValue, error |-> NoError, trace |-> <<>>]

NewCall(via, r, own, instr, schema, fn) ==
  [IdleCall EXCEPT !.pc = "init", !.via = via, !.r = r, !.own = own,
                   !.instr = instr, !.schema = schema, !.fn = fn]

Terminal == {"returned", "raised"}

FirstFree(r) == researchers[r].status = "none"
                /\ \A q \in Researchers : q < r => researchers[q].status # "none"

FirstIdle(c) == calls[c].pc = "idle"
                /\ \A d \in Calls : d < c => calls[d].pc # "idle"

\* self, as the call's frame sees it.
Self(c) == IF calls[c].via = "wrapper" THEN calls[c].own ELSE researchers[calls[c].r]

RaiseIn(k, err) == [k EXCEPT !.pc = "raised", !.error = err]

\* Step 2 with the outcome of verify_function dropped.
VerifyIgnored(k) == [k EXCEPT !.pc = "backend", !.trace = Append(@, "verify")]

\* Step 2, line 59: self.baml_manager.verify_function(baml_function); on
\* success the body goes on to call _run_research (line 62).
Verify(k) ==
  IF VerifyFunction(k.fn)
  THEN [k EXCEPT !.pc = "backend", !.trace = Append(@, "verify")]
  ELSE [RaiseIn(k, InvalidFunctionError) EXCEPT !.trace = Append(@, "verify")]

\* Step 3, line 62: research_output is bound; the body goes on to call
\* baml_function (line 66).
Backend(k) ==
  [k EXCEPT !.pc = "extract", !.text = RunResearch(k.instr),
            !.trace = Append(@, "backend")]

\* Step 4 raising ExtractionError without "from e".
ExtractNoCause(k) ==
  IF k.fn.kind = "returns"
  THEN [k EXCEPT !.pc = "check", !.result = k.fn.val, !.trace = Append(@, "extract")]
  ELSE [RaiseIn(k, IF IsException(k.fn.exc)
                   THEN [ExtractionFailed(k.fn.exc) EXCEPT !.cause = 0]
                   ELSE Propagated(k.fn.exc))
          EXCEPT !.trace = Append(@, "extract")]

\* Step 4 calling baml_function once more after a first failure.
ExtractRetry(k) ==
  IF k.fn.kind = "returns"
  THEN [k EXCEPT !.pc = "check", !.result = k.fn.val, !.trace = Append(@, "extract")]
  ELSE IF IsException(k.fn.exc) /\ Len(k.trace) < 4
       THEN [k EXCEPT !.trace = Append(@, "extract")]
       ELSE [RaiseIn(k, IF IsException(k.fn.exc) THEN ExtractionFailed(k.fn.exc)
                        ELSE Propagated(k.fn.exc))
               EXCEPT !.trace = Append(@, "extract")]

\* Step 4, lines 65-68: the awaited baml_function returns or raises.
Extract(k) ==
  IF k.fn.kind = "returns"
  THEN [k EXCEPT !.pc = "check", !.result = k.fn.val, !.trace = Append(@, "extract")]
  ELSE [RaiseIn(k, IF IsException(k.fn.exc) THEN ExtractionFailed(k.fn.exc)
                   ELSE Propagated(k.fn.exc))
          EXCEPT !.trace = Append(@, "extract")]

\* Steps 5 and 6 without the isinstance check.
CheckSkipped(k) == [k EXCEPT !.pc = "returned", !.trace = Append(@, "check")]

\* Steps 5 and 6 returning a copy of the result.
CheckCopy(k) ==
  IF IsInstance(k.result, k.schema)
  THEN [k EXCEPT !.pc = "returned", !.result = [@ EXCEPT !.id = 0],
                 !.trace = Append(@, "check")]
  ELSE [RaiseIn(k, ExtractionMismatch(k.result, k.schema))
          EXCEPT !.trace = Append(@, "check")]

\* Steps 5 and 6, lines 71-76: the isinstance check and the return.
Check(k) ==
  IF IsInstance(k.result, k.schema)
  THEN [k EXCEPT !.pc = "returned", !.trace = Append(@, "check")]
  ELSE [RaiseIn(k, ExtractionMismatch(k.result, k.schema))
          EXCEPT !.trace = Append(@, "check")]

\* The frame k of call c and its self (with manager m) after a step.
Update(c, k, m) ==
  IF calls[c].via = "wrapper"
  THEN /\ calls' = [calls EXCEPT ![c] = [k EXCEPT !.own.manager = m]]
       /\ researchers' = researchers
  ELSE /\ calls' = [calls EXCEPT ![c] = k]
       /\ researchers' = [researchers EXCEPT ![calls[c].r].manager = m]

\* ---------------------------------------------------------------- actions
\* A caller constructs Researcher(baml_dir, config).
Construct(r, baml_dir, config) ==
  /\ FirstFree(r)
  /\ researchers' = [researchers EXCEPT ![r] = ResearcherInit(baml_dir, config)]
  /\ UNCHANGED <<fs, loadable, calls>>

\* A caller calls researcher.research(...): the coroutine is created.
CallResearch(c, r, instr, schema, fn) ==
  /\ FirstIdle(c)
  /\ researchers[r].status = "live"
  /\ calls' = [calls EXCEPT ![c] = NewCall("method", r, NoResearcher, instr, schema, fn)]
  /\ UNCHANGED <<fs, loadable, researchers>>

\* The module-level research(...) handing on a Researcher whose manager was
\* set up by an earlier call.
WrapperResearchCached(c, instr, schema, fn, config) ==
  LET new == [ResearcherInit(NoDir, config) EXCEPT !.manager.initialized = TRUE]
      k == NewCall("wrapper", 0, new, instr, schema, fn)
  IN /\ FirstIdle(c)
     /\ calls' = [calls EXCEPT ![c] =
                    IF new.status = "live" THEN k ELSE RaiseIn(k, ConfigurationError)]
     /\ UNCHANGED <<fs, loadable, researchers>>

\* The module-level research(...), lines 112-117: builds
\* Researcher(config=config) and delegates to its research method.
WrapperResearch(c, instr, schema, fn, config) ==
  LET new == ResearcherInit(NoDir, config)
      k == NewCall("wrapper", 0, new, instr, schema, fn)
  IN /\ FirstIdle(c)
     /\ calls' = [calls EXCEPT ![c] =
                    IF new.status = "live" THEN k ELSE RaiseIn(k, ConfigurationError)]
     /\ UNCHANGED <<fs, loadable, researchers>>

\* Step 1 running the manager's setup whatever its state.
StepInitAlways(c) ==
  LET k == [calls[c] EXCEPT !.trace = Append(@, "init")]
      m == Self(c).manager
  IN /\ calls[c].pc = "init"
     /\ Update(c, [k EXCEPT !.pc = "initWait"], InitBegin(m))
     /\ UNCHANGED <<fs, loadable>>

\* Step 1, line 56: await self.baml_manager.init(), up to the suspension
\* inside init.  A ready manager returns at once and the body runs on.
StepInit(c) ==
  LET k == [calls[c] EXCEPT !.trace = Append(@, "init")]
      m == Self(c).manager
  IN /\ calls[c].pc = "init"
     /\ IF InitNeedsSetup(m)
        THEN Update(c, [k EXCEPT !.pc = "initWait"], InitBegin(m))
        ELSE Update(c, Verify(k), m)
     /\ UNCHANGED <<fs, loadable>>

\* Step 1, line 56: the awaited init resumes and returns or raises.
StepInitDone(c) ==
  LET m == Self(c).manager
  IN /\ calls[c].pc = "initWait"
     /\ IF SetupOk(m)
        THEN Update(c, Verify(calls[c]), InitDone(m))
        ELSE Update(c, RaiseIn(calls[c], BamlInitError), m)
     /\ UNCHANGED <<fs, loadable>>

\* Line 62: the awaited _run_research returns.
StepBackend(c) ==
  /\ calls[c].pc = "backend"
  /\ calls' = [calls EXCEPT ![c] = Backend(calls[c])]
  /\ UNCHANGED <<fs, loadable, researchers>>

\* Lines 66-76: the awaited baml_function returns or raises, and the body
\* runs to its end.
StepExtract(c) ==
  LET k == Extract(calls[c])
  IN /\ calls[c].pc = "extract"
     /\ calls' = [calls EXCEPT ![c] = IF k.pc = "check" THEN Check(k) ELSE k]
     /\ UNCHANGED <<fs, loadable, researchers>>

\* ---------------------------------------------------------- specification
Init ==
  /\ fs \in SUBSET Dirs
  /\ loadable \in SUBSET fs
  /\ researchers = [r \in Researchers |-> NoResearcher]
  /\ calls = [c \in Calls |-> IdleCall]

Step(c) ==
  \/ StepInit(c)
  \/ StepInitDone(c)
  \/ StepBackend(c)
  \/ StepExtract(c)

Next ==
  \/ \E r \in Researchers, d \in Dirs \cup {NoDir}, cfg \in ConfigArgs : Construct(r, d, cfg)
  \/ \E c \in Calls, r \in Researchers, i \in Instructions, s \in Schemas, f \in Extractors :
       CallResearch(c, r, i, s, f)
  \/ \E c \in Calls, i \in Instructions, s \in Schemas, f \in Extractors, cfg \in ConfigArgs :
       WrapperResearch(c, i, s, f, cfg)
  \/ \E c \in Calls : Step(c)

Spec == Init /\ [][Next]_vars

\* Calls made one after the other: researcher.research is called on a
\* Researcher only when no earlier call on it is still running.
Running(r) == \E c \in Calls : calls[c].via = "method" /\ calls[c].r = r
                               /\ calls[c].pc \notin Terminal

CallResearchSeq(c, r, instr, schema, fn) ==
  /\ ~Running(r)
  /\ CallResearch(c, r, instr, schema, fn)

NextSeq ==
  \/ \E r \in Researchers, d \in Dirs \cup {NoDir}, cfg \in ConfigArgs : Construct(r, d, cfg)
  \/ \E c \in Calls, r \in Researchers, i \in Instructions, s \in Schemas, f \in Extractors :
       CallResearchSeq(c, r, i, s, f)
  \/ \E c \in Calls, i \in Instructions, s \in Schemas, f \in Extractors, cfg \in ConfigArgs :
       WrapperResearch(c, i, s, f, cfg)
  \/ \E c \in Calls : Step(c)

SpecSeq == Init /\ [][NextSeq]_vars

\* ------------------------------------------------------------ properties
Invoked(k, step) == \E i \in DOMAIN k.trace : k.trace[i] = step

Contains(msg, part) == \E i \in DOMAIN msg : msg[i] = part

Conforms(v, schema) == schema \in Bases(v.type)

MethodCalls(r) == {c \in Calls : calls[c].via = "method" /\ calls[c].r = r}

\* Every Researcher a construction has produced or abandoned: the shared
\* ones and the ones local to a call of the module-level research.
Built ==
  {researchers[r] : r \in {q \in Researchers : researchers[q].status # "none"}}
  \cup {calls[c].own : c \in {d \in Calls : calls[d].via = "wrapper"}}

\* C1: a research call that has returned holds an instance of schema; and when
\* the extractor returned a value that is no instance of schema, the call has
\* raised ExtractionError with a message naming the value's type and schema.
C1_ConformantOrRaises ==
  \A c \in Calls :
    LET k == calls[c] IN
    /\ k.pc = "returned" => k.error = NoError /\ Conforms(k.result, k.schema)
    /\ (Invoked(k, "extract") /\ k.fn.kind = "returns" /\ ~Conforms(k.fn.val, k.schema))
         => /\ k.pc = "raised"
            /\ k.error.kind = "ExtractionError"
            /\ Contains(k.error.msg, k.fn.val.type)
            /\ Contains(k.error.msg, k.schema)

C1_Witness ==
  \E c \in Calls :
    /\ calls[c].pc = "raised"
    /\ Invoked(calls[c], "check")
    /\ calls[c].fn.kind = "returns"
    /\ calls[c].fn.val.type = "B"
    /\ calls[c].schema = "A"

\* C2 as stated: whatever the extractor raises, the call raises an
\* ExtractionError whose message holds the original message and whose cause
\* is the original exception, which itself does not reach the caller.
C2_EveryRaiseWrapped ==
  \A c \in Calls :
    LET k == calls[c] IN
    (Invoked(k, "extract") /\ k.fn.kind = "raises")
      => /\ k.pc = "raised"
         /\ k.error.kind = "ExtractionError"
         /\ Contains(k.error.msg, k.fn.exc.msg)
         /\ k.error.cause = k.fn.exc.id
         /\ k.error.id # k.fn.exc.id

\* C2 amended: an exception of class Exception raised by the extractor is
\* re-raised as an ExtractionError holding its message, with the original as
\* cause; an exception that is no Exception (CancelledError) reaches the
\* caller as it is.  Neither is swallowed.
C2_ExceptionWrapped ==
  \A c \in Calls :
    LET k == calls[c] IN
    (Invoked(k, "extract") /\ k.fn.kind = "raises")
      => /\ k.pc = "raised"
         /\ k.fn.exc.class \in ExceptionClasses
              => /\ k.error.kind = "ExtractionError"
                 /\ Contains(k.error.msg, k.fn.exc.msg)
                 /\ k.error.cause = k.fn.exc.id
                 /\ k.error.id # k.fn.exc.id
         /\ k.fn.exc.class \notin ExceptionClasses
              => /\ k.error.kind = k.fn.exc.class
                 /\ k.error.id = k.fn.exc.id

C2_Witness ==
  \E c \in Calls :
    /\ calls[c].pc = "raised"
    /\ calls[c].fn.kind = "raises"
    /\ calls[c].fn.exc.class = "RuntimeError"
    /\ calls[c].error.cause = calls[c].fn.exc.id
    /\ Contains(calls[c].error.msg, "boom")

\* C3: with the calls on a Researcher made one after the other, a ready
\* manager has run its setup exactly once, every call that got past step 1
\* found or made the manager ready, and a step never changes a ready manager
\* (a later init is a no-op and ready never falls back to uninitialized).
C3_InitOnce ==
  /\ [](\A r \in Researchers :
          /\ researchers[r].manager.initialized => researchers[r].manager.setups = 1
          /\ \A c \in MethodCalls(r) :
               Invoked(calls[c], "verify") => researchers[r].manager.initialized)
  /\ [][\A r \in Researchers :
          researchers[r].manager.initialized
            => researchers'[r].manager = researchers[r].manager]_vars

C3_Witness ==
  \E r \in Researchers :
    /\ Cardinality({c \in MethodCalls(r) :
                      calls[c].pc \in Terminal /\ Invoked(calls[c], "verify")}) >= 2
    /\ researchers[r].manager.setups = 1

\* C4 as stated: also with calls running concurrently on a Researcher, at
\* most one call at a time is inside its manager's setup, a ready manager
\* has run the setup once, and a call past step 1 has a ready manager.
C4_SetupAtMostOnce ==
  \A r \in Researchers :
    /\ Cardinality({c \in MethodCalls(r) : calls[c].pc = "initWait"}) <= 1
    /\ researchers[r].manager.initialized => researchers[r].manager.setups <= 1
    /\ \A c \in MethodCalls(r) :
         Invoked(calls[c], "verify") => researchers[r].manager.initialized

\* C5: a call with an extractor the manager does not recognize fails at
\* step 2 with InvalidFunctionError and invokes neither the research backend
\* nor the extractor.
C5_UnrecognizedStops ==
  \A c \in Calls :
    LET k == calls[c] IN
    (k.pc # "idle" /\ ~k.fn.recognized)
      => /\ ~Invoked(k, "backend") /\ k.text = <<>>
         /\ ~Invoked(k, "extract") /\ k.result = NoValue
         /\ k.pc # "returned"
         /\ Invoked(k, "verify")
              => k.pc = "raised" /\ k.error.kind = "InvalidFunctionError"

C5_Witness ==
  \E c \in Calls :
    /\ ~calls[c].fn.recognized
    /\ calls[c].pc = "raised"
    /\ calls[c].error.kind = "InvalidFunctionError"

StepOrder == <<"init", "verify", "backend", "extract", "check">>

\* The step at which an error leaves research ("" for an error of the
\* construction, before any step).
ErrorStep(err) ==
  CASE err.kind = "ConfigurationError" -> ""
    [] err.kind = "BamlInitError" -> "init"
    [] err.kind = "InvalidFunctionError" -> "verify"
    [] err.kind = "ExtractionError" /\ err.cause = 0 -> "check"
    [] OTHER -> "extract"

\* C6: the steps a call has run are an initial part of init, verify, backend,
\* extract, check, each run once; a call that raised ran no step after the
\* failing one, a call that returned ran all five, and a finished call does
\* nothing more.
C6_OrderedNoRetry ==
  /\ [](\A c \in Calls :
          LET k == calls[c] IN
          /\ Len(k.trace) <= Len(StepOrder)
          /\ k.trace = SubSeq(StepOrder, 1, Len(k.trace))
          /\ k.pc = "raised"
               => IF ErrorStep(k.error) = "" THEN k.trace = <<>>
                  ELSE k.trace # <<>> /\ k.trace[Len(k.trace)] = ErrorStep(k.error)
          /\ k.pc = "returned" => k.trace = StepOrder)
  /\ [][\A c \in Calls : calls[c].pc \in Terminal => calls'[c] = calls[c]]_vars

C6_Witness ==
  /\ \E c \in Calls : calls[c].pc = "raised" /\ calls[c].trace = <<"init", "verify">>
  /\ \E c \in Calls : calls[c].pc = "returned"

\* C7: a finished call on a Researcher whose manager can be set up, with a
\* recognized extractor that returns an instance v of schema, has returned v
\* itself.
C7_ReturnsSameObject ==
  \A c \in Calls :
    LET k == calls[c] IN
    (/\ k.pc \in Terminal
     /\ Self(c).status = "live"
     /\ (Self(c).manager.initialized \/ Self(c).manager.dir \in loadable)
     /\ k.fn.recognized
     /\ k.fn.kind = "returns"
     /\ Conforms(k.fn.val, k.schema))
      => k.pc = "returned" /\ k.result = k.fn.val /\ k.result.id = k.fn.val.id

C7_Witness ==
  \E c \in Calls :
    /\ calls[c].pc = "returned"
    /\ calls[c].fn.val.type = "SubA"
    /\ calls[c].schema = "A"
    /\ calls[c].result = calls[c].fn.val

Outcome(k) == [pc |-> k.pc, result |-> k.result, kind |-> k.error.kind, trace |-> k.trace]

SameArguments(k, j) == k.instr = j.instr /\ k.schema = j.schema /\ k.fn = j.fn

DefaultBuilt(x) == x.status # "none" /\ x.argDir = NoDir /\ x.argCfg.isNone

\* C8: a call of the module-level research with no config starts on a
\* Researcher of its own, built as Researcher() is, whose manager is not yet
\* set up; and once finished it has the outcome (value returned or kind of
\* error, after the same steps) of constructing Researcher() and calling its
\* research method with the same arguments.
C8_WrapperAsDefault ==
  \A w \in Calls :
    LET k == calls[w] IN
    (k.via = "wrapper" /\ k.own.argCfg.isNone)
      => /\ DefaultBuilt(k.own)
         /\ k.own.config.baml_dir = DefaultDir
         /\ k.pc = "init" => ~k.own.manager.initialized /\ k.own.manager.setups = 0
         /\ k.own.manager.setups <= 1
         /\ k.pc \in Terminal =>
              \A r \in Researchers :
                DefaultBuilt(researchers[r]) =>
                  /\ researchers[r].status = "failed"
                       => k.pc = "raised" /\ k.error.kind = "ConfigurationError"
                  /\ \A m \in MethodCalls(r) :
                       (calls[m].pc \in Terminal /\ SameArguments(calls[m], k))
                         => Outcome(calls[m]) = Outcome(k)

C8_Witness ==
  \E w \in Calls, m \in Calls :
    /\ calls[w].via = "wrapper" /\ calls[w].own.argCfg.isNone
    /\ calls[m].via = "method" /\ DefaultBuilt(researchers[calls[m].r])
    /\ SameArguments(calls[m], calls[w])
    /\ calls[w].pc = "returned"
    /\ calls[m].pc = "returned"

\* C9: a Researcher that exists was validated on its final configuration (the
\* baml_dir override applied), which passed; a construction whose final
\* configuration fails validation yields no Researcher, and a research call
\* runs its steps only on a Researcher that exists.
C9_ValidatedBeforeUse ==
  /\ \A x \in Built :
       /\ x.argDir # NoDir => x.config.baml_dir = x.argDir
       /\ x.validated = x.config.baml_dir
       /\ x.status = "live" <=> x.config.baml_dir \in fs
  /\ \A c \in Calls :
       calls[c].pc # "idle" =>
         IF Self(c).status = "live"
         THEN calls[c].error.kind # "ConfigurationError"
         ELSE /\ Self(c).status = "failed"
              /\ calls[c].pc = "raised"
              /\ calls[c].error.kind = "ConfigurationError"
              /\ calls[c].trace = <<>>

C9_Witness ==
  /\ \E r \in Researchers :
       /\ researchers[r].status = "live"
       /\ researchers[r].argDir # NoDir
       /\ ~researchers[r].argCfg.isNone
       /\ researchers[r].argDir # Lookup(researchers[r].argCfg.items, "baml_dir")
       /\ \E c \in MethodCalls(r) : calls[c].pc \in Terminal
  /\ \E c \in Calls : calls[c].error.kind = "ConfigurationError"

\* What a step may change of a Researcher: the manager's initialization state.
SameButInitState(x, y) ==
  /\ [y EXCEPT !.manager = x.manager] = x
  /\ y.manager.dir = x.manager.dir

\* C10: the manager's location equals config.baml_dir in every state; a
\* step of a research call changes nothing of a Researcher but its manager's
\* initialization state; and the steps after step 1 (the awaited backend and
\* extractor returning, the conformance check) change the call's own frame
\* only.
C10_FrameEffect ==
  /\ [](\A x \in Built : x.manager.dir = x.config.baml_dir)
  /\ [][/\ \A r \in Researchers :
             researchers[r].status # "none"
               => SameButInitState(researchers[r], researchers'[r])
        /\ \A c \in Calls :
             /\ calls[c].via = "wrapper" => SameButInitState(calls[c].own, calls'[c].own)
             /\ (calls[c].pc \in {"backend", "extract"} /\ calls'[c] # calls[c])
                  => /\ researchers' = researchers
                     /\ calls'[c].own = calls[c].own
                     /\ \A d \in Calls \ {c} : calls'[d] = calls[d]]_vars

C10_Witness ==
  \E c \in Calls :
    /\ calls[c].pc \in Terminal
    /\ Invoked(calls[c], "check")
    /\ Self(c).argDir # NoDir
    /\ Self(c).config.baml_dir # DefaultDir
    /\ Self(c).manager.initialized

====
